---- MODULE Spec2Model ----
(***************************************************************************)
(* Model of football_dv_streamlit/app.py: the two cached loaders, the      *)
(* cached calendar merge, the three pages and the script run (main).       *)
(*                                                                         *)
(* Dates are day ordinals (1..MaxDate).  A raw date cell is the day d, or  *)
(* 100 + d for the evening of day d (a cell with a time of day), or        *)
(* BadCell for a text pandas cannot parse, which it coerces to NaT.  A     *)
(* goal cell is a number, or NaN for an empty cell.  A CSV is its header   *)
(* (the sequence of column names) and its rows; a row carries the cells    *)
(* of the columns the loader selects.                                      *)
(***************************************************************************)
EXTENDS Integers, Sequences, FiniteSets, TLC

VARIABLES source, cache, run, lastOp

vars == <<source, cache, run, lastOp>>

(***************************************************************************)
(* Bounds of the model.                                                    *)
(***************************************************************************)
MaxDate == 3
MaxCalls == 2
MaxMatches == 2
MaxGoal == 1
WinDays == 4
WinCalls == 1
MaxSessDate == 2

(***************************************************************************)
(* Values.                                                                 *)
(***************************************************************************)
NaT == 0
NaN == -1
BadCell == -2
OffsetLo == -3
OffsetHi == 3

Dates == 1..MaxDate
Goals == (0..MaxGoal) \cup {NaN}
River == "River Plate"
Boca == "Boca Juniors"
Pages == {"Overview", "River & Boca", "Methodology"}

NoEntry == <<>>
Some(v) == <<v>>

SeqUpTo(n, S) == UNION {[1..k -> S] : k \in 0..n}

RECURSIVE SumOver(_, _)
SumOver(S, f) ==
  IF S = {} THEN 0
  ELSE LET x == CHOOSE y \in S : TRUE IN f[x] + SumOver(S \ {x}, f)

MinOf(S) == CHOOSE x \in S : \A y \in S : x <= y
MaxOf(S) == CHOOSE x \in S : \A y \in S : y <= x

(***************************************************************************)
(* Column-name heuristics: "tok" in c.lower().                             *)
(***************************************************************************)
ColTokens(c) ==
  CASE c = "llamado_fecha" -> {"fecha"}
    [] c = "Fecha" -> {"fecha"}
    [] c = "match_date" -> {"date"}
    [] c = "home_team" -> {"home", "team"}
    [] c = "away_team" -> {"away", "team"}
    [] c = "Home Goals" -> {"home", "goal"}
    [] c = "away_goals" -> {"away", "goal"}
    [] OTHER -> {}

Contains(c, tok) == tok \in ColTokens(c)

Stop(msg) == [kind |-> "stop", error |-> msg]
Ok(v) == [kind |-> "ok", value |-> v]
Raise(e) == [kind |-> "raise", error |-> e]

(* pd.to_datetime(errors="coerce") followed by .dt.date: the time of day goes *)
to_datetime(cell) == IF cell <= 0 THEN NaT ELSE cell % 100

(* str.strip() on the team names the inputs use *)
strip(s) ==
  CASE s = " River Plate " -> "River Plate"
    [] s = "Boca Juniors " -> "Boca Juniors"
    [] OTHER -> s

(***************************************************************************)
(* load_dv_data                                                            *)
(***************************************************************************)
(* Mutant: duplicate dates dropped before counting. *)
load_dv_data_distinct(csv) ==
  LET date_cols == SelectSeq(csv.columns, LAMBDA c : Contains(c, "fecha"))
  IN IF date_cols = <<>>
     THEN Stop("No date column found in DV dataset.")
     ELSE LET days == {to_datetime(csv.rows[i]) : i \in DOMAIN csv.rows} \ {NaT}
          IN Ok([d \in days |-> 1])

load_dv_data(csv) ==
  LET date_cols == SelectSeq(csv.columns, LAMBDA c : Contains(c, "fecha"))
  IN IF date_cols = <<>>
     THEN Stop("No date column found in DV dataset.")
     ELSE LET parsed == [i \in 1..Len(csv.rows) |-> to_datetime(csv.rows[i])]
              kept == SelectSeq(parsed, LAMBDA x : x # NaT)
              days == {kept[i] : i \in DOMAIN kept}
          IN Ok([d \in days |-> Cardinality({i \in DOMAIN kept : kept[i] = d})])

(***************************************************************************)
(* load_match_data and its inner result_for.  On a table left with no row  *)
(* DataFrame.apply(axis=1) returns a frame instead of a column, and the    *)
(* assignment of river_result then raises or not with the pandas version   *)
(* installed: applyRaises is that choice.                                  *)
(***************************************************************************)
Gt(a, b) == a # NaN /\ b # NaN /\ a > b
Lt(a, b) == a # NaN /\ b # NaN /\ a < b

(* Mutant: no early return for a team that did not play. *)
result_for_unguarded(team, row) ==
  IF row.home = team
  THEN IF Gt(row.home_goals, row.away_goals) THEN "win"
       ELSE IF Lt(row.home_goals, row.away_goals) THEN "loss"
       ELSE "draw"
  ELSE IF Gt(row.away_goals, row.home_goals) THEN "win"
       ELSE IF Lt(row.away_goals, row.home_goals) THEN "loss"
       ELSE "draw"

result_for(team, row) ==
  IF ~(row.home = team \/ row.away = team) THEN "None"
  ELSE IF row.home = team
       THEN IF Gt(row.home_goals, row.away_goals) THEN "win"
            ELSE IF Lt(row.home_goals, row.away_goals) THEN "loss"
            ELSE "draw"
       ELSE IF Gt(row.away_goals, row.home_goals) THEN "win"
            ELSE IF Lt(row.away_goals, row.home_goals) THEN "loss"
            ELSE "draw"

Int01(b) == IF b THEN 1 ELSE 0

MatchRow(raw) ==
  LET r == [date |-> to_datetime(raw.date),
            home |-> strip(raw.home),
            away |-> strip(raw.away),
            home_goals |-> raw.home_goals,
            away_goals |-> raw.away_goals]
  IN [date |-> r.date, home |-> r.home, away |-> r.away,
      home_goals |-> r.home_goals, away_goals |-> r.away_goals,
      river_played |-> Int01(r.home = River \/ r.away = River),
      boca_played |-> Int01(r.home = Boca \/ r.away = Boca),
      superclasico |-> Int01((r.home = River /\ r.away = Boca)
                             \/ (r.home = Boca /\ r.away = River)),
      river_result |-> result_for(River, r),
      boca_result |-> result_for(Boca, r)]

MissingBoth(a, b) == a = <<>> /\ b = <<>>

MissingEither(a, b) == a = <<>> \/ b = <<>>

load_match_data(file, applyRaises) ==
  IF file.missing THEN Stop("Football CSV not found.")
  ELSE
  LET cols == file.columns
      date_candidate_cols ==
        SelectSeq(cols, LAMBDA c : Contains(c, "date") \/ Contains(c, "fecha"))
      home_cols == SelectSeq(cols, LAMBDA c : Contains(c, "home") /\ Contains(c, "team"))
      away_cols == SelectSeq(cols, LAMBDA c : Contains(c, "away") /\ Contains(c, "team"))
      home_goal_cols == SelectSeq(cols, LAMBDA c : Contains(c, "home") /\ Contains(c, "goal"))
      away_goal_cols == SelectSeq(cols, LAMBDA c : Contains(c, "away") /\ Contains(c, "goal"))
      kept == SelectSeq(file.rows, LAMBDA raw : to_datetime(raw.date) # NaT)
  IN IF date_candidate_cols = <<>>
     THEN Stop("Could not find a date column in Liga Argentina dataset.")
     ELSE IF MissingEither(home_cols, away_cols)
     THEN Stop("Could not find home_team / away_team columns in Liga Argentina dataset.")
     ELSE IF MissingEither(home_goal_cols, away_goal_cols)
     THEN Stop("Could not find goals columns in Liga Argentina dataset.")
     ELSE IF kept = <<>> /\ applyRaises
     THEN Raise("ValueError")
     ELSE Ok([i \in 1..Len(kept) |-> MatchRow(kept[i])])

(***************************************************************************)
(* build_daily_merged: the body, given what the two loaders returned.      *)
(* A table without rows has NaN as the min and max of its date column;     *)
(* min() of a date and NaN raises TypeError, and pd.date_range from NaN    *)
(* to NaN raises ValueError: either way the function raises.               *)
(***************************************************************************)
Fillna0(x) == IF x = NaN THEN 0 ELSE x

MatchDates(matches) == {matches[i].date : i \in DOMAIN matches}

(* Mutant: the played and derby flags reduced with "min". *)
AggMin(matches) ==
  [d \in MatchDates(matches) |->
    LET g == {i \in DOMAIN matches : matches[i].date = d}
    IN [river_played |-> MinOf({matches[i].river_played : i \in g}),
        boca_played |-> MinOf({matches[i].boca_played : i \in g}),
        superclasico |-> MaxOf({matches[i].superclasico : i \in g}),
        river_win |-> Int01(\E i \in g : matches[i].river_result = "win"),
        river_loss |-> Int01(\E i \in g : matches[i].river_result = "loss"),
        boca_win |-> Int01(\E i \in g : matches[i].boca_result = "win"),
        boca_loss |-> Int01(\E i \in g : matches[i].boca_result = "loss")]]

(* Mutant: the day's result taken from its last match only. *)
AggLast(matches) ==
  [d \in MatchDates(matches) |->
    LET g == {i \in DOMAIN matches : matches[i].date = d}
        l == MaxOf(g)
    IN [river_played |-> MaxOf({matches[i].river_played : i \in g}),
        boca_played |-> MaxOf({matches[i].boca_played : i \in g}),
        superclasico |-> MaxOf({matches[i].superclasico : i \in g}),
        river_win |-> Int01(matches[l].river_result = "win"),
        river_loss |-> Int01(matches[l].river_result = "loss"),
        boca_win |-> Int01(matches[l].boca_result = "win"),
        boca_loss |-> Int01(matches[l].boca_result = "loss")]]

Agg(matches) ==
  [d \in MatchDates(matches) |->
    LET g == {i \in DOMAIN matches : matches[i].date = d}
    IN [river_played |-> MaxOf({matches[i].river_played : i \in g}),
        boca_played |-> MaxOf({matches[i].boca_played : i \in g}),
        superclasico |-> MaxOf({matches[i].superclasico : i \in g}),
        river_win |-> Int01(\E i \in g : matches[i].river_result = "win"),
        river_loss |-> Int01(\E i \in g : matches[i].river_result = "loss"),
        boca_win |-> Int01(\E i \in g : matches[i].boca_result = "win"),
        boca_loss |-> Int01(\E i \in g : matches[i].boca_result = "loss")]]

CalendarStart(dv, matches) == MinOf(DOMAIN dv \cup MatchDates(matches))
(* Mutant: the calendar ends with the last call date. *)
CalendarEndCallsOnly(dv, matches) == MaxOf(DOMAIN dv)

CalendarEnd(dv, matches) == MaxOf(DOMAIN dv \cup MatchDates(matches))

MergedRow(d, dv, agg) ==
  LET calls == IF d \in DOMAIN dv THEN dv[d] ELSE NaN
      flag(c) == IF d \in DOMAIN agg THEN agg[d][c] ELSE NaN
      rp == Fillna0(flag("river_played"))
      bp == Fillna0(flag("boca_played"))
  IN [date |-> d,
      dv_calls |-> Fillna0(calls),
      river_played |-> rp,
      boca_played |-> bp,
      superclasico |-> Fillna0(flag("superclasico")),
      river_win |-> Fillna0(flag("river_win")),
      river_loss |-> Fillna0(flag("river_loss")),
      boca_win |-> Fillna0(flag("boca_win")),
      boca_loss |-> Fillna0(flag("boca_loss")),
      any_match |-> Int01(rp = 1 \/ bp = 1)]

build_daily_merged(dv, matches) ==
  IF DOMAIN dv = {} \/ MatchDates(matches) = {}
  THEN Raise("TypeError")
  ELSE LET start == CalendarStart(dv, matches)
           end == CalendarEnd(dv, matches)
           agg == Agg(matches)
       IN Ok([i \in 1..(end - start + 1) |-> MergedRow(start + i - 1, dv, agg)])

(***************************************************************************)
(* The pages.  A mean is kept as the pair <<sum, count>>.  Line 285 of     *)
(* app.py reads labels{...}, without the "=": the file does not compile    *)
(* as it stands, and the model reads the line as labels={...}.             *)
(***************************************************************************)
Mean(df, idx) == <<SumOver(idx, [i \in idx |-> df[i].dv_calls]), Cardinality(idx)>>

(* groupby(key)["dv_calls"].agg(["mean", "count"]); key gives each row's group *)
GroupMean(df, key) ==
  [k \in {key[i] : i \in DOMAIN key} |-> Mean(df, {i \in DOMAIN key : key[i] = k})]

day_type(row) ==
  IF row.superclasico = 1 THEN "Superclasico"
  ELSE IF row.any_match = 1 THEN "River/Boca match day"
  ELSE "No match"

page_overview(df) ==
  [days |-> Len(df),
   mean_calls |-> Mean(df, DOMAIN df),
   match_days |-> SumOver(DOMAIN df, [i \in DOMAIN df |-> df[i].any_match]),
   summary |-> GroupMean(df, [i \in DOMAIN df |-> day_type(df[i])])]

river_result_of(row) ==
  IF row.river_win = 1 THEN "win" ELSE IF row.river_loss = 1 THEN "loss" ELSE "draw"

boca_result_of(row) ==
  IF row.boca_win = 1 THEN "win" ELSE IF row.boca_loss = 1 THEN "loss" ELSE "draw"

(* Mutant: an offset with no row in the table counts as a day with 0 calls. *)
sc_avg_zero_filled(df) ==
  LET sc_dates == {df[i].date : i \in {j \in DOMAIN df : df[j].superclasico = 1}}
      calls(day) == SumOver({i \in DOMAIN df : df[i].date = day},
                            [i \in DOMAIN df |-> df[i].dv_calls])
  IN [t \in OffsetLo..OffsetHi |->
        <<SumOver(sc_dates, [d \in sc_dates |-> calls(d + t)]), Cardinality(sc_dates)>>]

sc_avg(df) ==
  LET sc_dates == {df[i].date : i \in {j \in DOMAIN df : df[j].superclasico = 1}}
      frames == {fr \in sc_dates \X (OffsetLo..OffsetHi) \X DOMAIN df :
                   df[fr[3]].date = fr[1] + fr[2]}
      ts == {fr[2] : fr \in frames}
  IN [t \in ts |->
        LET g == {fr \in frames : fr[2] = t}
        IN <<SumOver(g, [fr \in g |-> df[fr[3]].dv_calls]), Cardinality(g)>>]

page_teams(df) ==
  LET river_days == {i \in DOMAIN df : df[i].river_played = 1}
      boca_days == {i \in DOMAIN df : df[i].boca_played = 1}
      has_sc == \E i \in DOMAIN df : df[i].superclasico = 1
  IN [river_summary |-> GroupMean(df, [i \in river_days |-> river_result_of(df[i])]),
      boca_summary |-> GroupMean(df, [i \in boca_days |-> boca_result_of(df[i])]),
      info |-> IF has_sc THEN NoEntry
               ELSE Some("No Superclasicos found in the overlapping period of both datasets."),
      fig_sc |-> IF has_sc THEN Some(sc_avg(df)) ELSE NoEntry]

page_methodology(df) == [text |-> "Methodology & Notes"]

Render(page, df) ==
  IF page = "Overview" THEN page_overview(df)
  ELSE IF page = "River & Boca" THEN page_teams(df)
  ELSE page_methodology(df)

(***************************************************************************)
(* One script run (main) on the st.cache_data store.  c and f are what    *)
(* pd.read_csv returns for the remote CSV and the local file if the        *)
(* loaders run.  The result is the new store and what the run showed.      *)
(***************************************************************************)
HitNever(entry) == FALSE

Hit(entry) == entry # NoEntry

CachedCall(entry, result) == IF Hit(entry) THEN Ok(entry[1]) ELSE result

Halted(page, r, ran) ==
  [page |-> page,
   status |-> IF r.kind = "stop" THEN "stopped" ELSE "exception",
   error |-> r.error, view |-> NoEntry, ran |-> ran]

Shown(page, df, ran) ==
  [page |-> page, status |-> "ok", error |-> "",
   view |-> Some(Render(page, df)), ran |-> ran]

Script(page, c, f, applyRaises) ==
  IF Hit(cache.merged)
  THEN [cache |-> cache, run |-> Shown(page, cache.merged[1], {})]
  ELSE
  LET dvr == CachedCall(cache.dv, load_dv_data(c))
      ran1 == {"build_daily_merged"}
                \cup (IF Hit(cache.dv) THEN {} ELSE {"load_dv_data"})
  IN IF dvr.kind # "ok"
     THEN [cache |-> cache, run |-> Halted(page, dvr, ran1)]
     ELSE
     LET cache1 == [cache EXCEPT !.dv = Some(dvr.value)]
         mr == CachedCall(cache.matches, load_match_data(f, applyRaises))
         ran2 == ran1 \cup (IF Hit(cache.matches) THEN {} ELSE {"load_match_data"})
     IN IF mr.kind # "ok"
        THEN [cache |-> cache1, run |-> Halted(page, mr, ran2)]
        ELSE
        LET cache2 == [cache1 EXCEPT !.matches = Some(mr.value)]
            br == build_daily_merged(dvr.value, mr.value)
        IN IF br.kind # "ok"
           THEN [cache |-> cache2, run |-> Halted(page, br, ran2)]
           ELSE [cache |-> [cache2 EXCEPT !.merged = Some(br.value)],
                 run |-> Shown(page, br.value, ran2)]

KeptNone(f) == ~f.missing /\ \A i \in DOMAIN f.rows : to_datetime(f.rows[i].date) = NaT

PageView(page) ==
  \E applyRaises \in (IF KeptNone(source.liga) THEN BOOLEAN ELSE {FALSE}) :
    LET s == Script(page, source.dv, source.liga, applyRaises)
    IN /\ cache' = s.cache
       /\ run' = s.run
       /\ lastOp' = "view"
       /\ UNCHANGED source

EmptyCache == [dv |-> NoEntry, matches |-> NoEntry, merged |-> NoEntry]
NoRun == [page |-> "", status |-> "none", error |-> "", view |-> NoEntry, ran |-> {}]

(* "Clear cache": st.cache_data.clear() drops every entry; the page shown stays. *)
ClearCache ==
  /\ cache # EmptyCache
  /\ cache' = EmptyCache
  /\ lastOp' = "clear"
  /\ UNCHANGED <<source, run>>

(* The process restarts: the store is in memory only. *)
Restart ==
  /\ lastOp # "start"
  /\ cache' = EmptyCache
  /\ run' = NoRun
  /\ lastOp' = "start"
  /\ UNCHANGED source

(***************************************************************************)
(* The inputs: the remote CSV and the local file.                          *)
(***************************************************************************)
DvCsv(cols, rows) == [columns |-> cols, rows |-> rows]
File(cols, rows) == [missing |-> FALSE, columns |-> cols, rows |-> rows]
NoFile == [missing |-> TRUE, columns |-> <<>>, rows |-> <<>>]

DvCols == <<"caso_id", "llamado_fecha">>
DvColsNoDate == <<"caso_id", "hora">>
LigaCols == <<"round", "match_date", "home_team", "away_team", "Home Goals", "away_goals">>
LigaColsFecha == <<"Fecha", "home_team", "away_team", "Home Goals", "away_goals">>
Without(cols, c) == SelectSeq(cols, LAMBDA x : x # c)
LigaColsLacking == {Without(LigaCols, LigaCols[k]) : k \in 2..6}

RawRow(d, h, a, hg, ag) ==
  [date |-> d, home |-> h, away |-> a, home_goals |-> hg, away_goals |-> ag]
DerbyRow(d) == RawRow(d, "River Plate", "Boca Juniors ", 1, 0)

Evening(d) == 100 + d
RawTeams == {"River Plate", " River Plate ", "Boca Juniors", "Boca Juniors ", "Racing Club"}
Teams3 == {"River Plate", "Boca Juniors", "Racing Club"}
Cells == Dates \cup {BadCell}

RECURSIVE Repeat(_, _)
Repeat(x, n) == IF n = 0 THEN <<>> ELSE <<x>> \o Repeat(x, n - 1)

RECURSIVE WinCallRows(_, _)
WinCallRows(w, k) ==
  IF k = 0 THEN <<>> ELSE WinCallRows(w, k - 1) \o Repeat(k, w[k][1])

RECURSIVE WinMatchRows(_, _)
WinMatchRows(w, k) ==
  IF k = 0 THEN <<>>
  ELSE WinMatchRows(w, k - 1) \o (IF w[k][2] THEN <<DerbyRow(k)>> ELSE <<>>)

Source(c, f) == [dv |-> c, liga |-> f]

(* Any calls and any match dates. *)
CalRows == {DerbyRow(d) : d \in Cells}
CalSource(s) ==
  \E r \in SeqUpTo(MaxCalls, Cells), m \in SeqUpTo(MaxMatches, CalRows) :
    s = Source(DvCsv(DvCols, r), File(LigaCols, m))

(* One call at any time of day and one match row of any teams and goals. *)
RowSource(s) ==
  \E d \in Dates \cup {Evening(x) : x \in Dates}, md \in Dates,
     h \in RawTeams, a \in RawTeams, hg \in Goals, ag \in Goals :
    s = Source(DvCsv(DvCols, <<d>>), File(LigaColsFecha, <<RawRow(md, h, a, hg, ag)>>))

(* Several matches on one day, and a later day with a call and no match. *)
DayRows == {RawRow(1, h, a, hg, ag) : h \in Teams3, a \in Teams3, hg \in {0, 1}, ag \in {0, 1}}
DaySource(s) ==
  \E m \in SeqUpTo(MaxMatches, DayRows) :
    s = Source(DvCsv(DvCols, <<2>>), File(LigaCols, m))

(* A run of days, each with its calls and with or without a derby. *)
WinSource(s) ==
  \E w \in [1..WinDays -> (0..WinCalls) \X BOOLEAN] :
    s = Source(DvCsv(DvCols, WinCallRows(w, WinDays)),
               File(LigaCols, WinMatchRows(w, WinDays)))

(* The session's inputs: every way a load fails, and small tables. *)
SessDv ==
  {DvCsv(DvCols, <<>>), DvCsv(DvColsNoDate, <<1>>)}
    \cup {DvCsv(DvCols, <<d>>) : d \in (1..MaxSessDate) \cup {BadCell}}
SessLiga ==
  {NoFile, File(LigaCols, <<>>)}
    \cup {File(h, <<DerbyRow(1)>>) : h \in LigaColsLacking}
    \cup {File(LigaCols, <<DerbyRow(d)>>) : d \in (1..MaxSessDate) \cup {BadCell}}
SessSources == {[dv |-> c, liga |-> f] : c \in SessDv, f \in SessLiga}

(***************************************************************************)
(* The session: page views, cache invalidation, and the source data        *)
(* changing under the running app.                                         *)
(***************************************************************************)
Started ==
  /\ cache = EmptyCache
  /\ run = NoRun
  /\ lastOp = "start"

SourceChange ==
  \E s \in SessSources :
    /\ s # source
    /\ source' = s
    /\ lastOp' = "source"
    /\ UNCHANGED <<cache, run>>

View == \E page \in Pages : PageView(page)

Init == source \in SessSources /\ Started

Next ==
  \/ View
  \/ SourceChange
  \/ ClearCache
  \/ Restart

Spec == Init /\ [][Next]_vars

(* The pipeline on fixed inputs: one load, then views from the cache. *)
InitData ==
  /\ \/ CalSource(source)
     \/ RowSource(source)
     \/ DaySource(source)
     \/ WinSource(source)
  /\ Started

TeamsView == PageView("River & Boca")

NextData == TeamsView

SpecData == InitData /\ [][NextData]_vars

(***************************************************************************)
(* Vocabulary of the properties, read off the raw inputs.                  *)
(***************************************************************************)
CallCells == source.dv.rows
MatchCells == source.liga.rows
GoodCalls == {i \in DOMAIN CallCells : CallCells[i] # BadCell}
GoodMatches == {i \in DOMAIN MatchCells : MatchCells[i].date # BadCell}
DayOf(cell) == IF cell > 100 THEN cell - 100 ELSE cell
CallDay(i) == DayOf(CallCells[i])
MatchDay(i) == DayOf(MatchCells[i].date)
SourceDates == {CallDay(i) : i \in GoodCalls} \cup {MatchDay(i) : i \in GoodMatches}
CallsOn(d) == Cardinality({i \in GoodCalls : CallDay(i) = d})
MatchesOn(d) == {i \in GoodMatches : MatchDay(i) = d}

Spellings(T) ==
  IF T = River THEN {"River Plate", " River Plate "} ELSE {"Boca Juniors", "Boca Juniors "}
IsHome(T, raw) == raw.home \in Spellings(T)
IsAway(T, raw) == raw.away \in Spellings(T)
Plays(T, raw) == IsHome(T, raw) \/ IsAway(T, raw)
IsDerby(raw) ==
  \/ IsHome(River, raw) /\ IsAway(Boca, raw)
  \/ IsHome(Boca, raw) /\ IsAway(River, raw)
GoalsFor(T, raw) == IF IsHome(T, raw) THEN raw.home_goals ELSE raw.away_goals
GoalsAgainst(T, raw) == IF IsHome(T, raw) THEN raw.away_goals ELSE raw.home_goals
Known(T, raw) == GoalsFor(T, raw) # NaN /\ GoalsAgainst(T, raw) # NaN
Wins(T, raw) == Plays(T, raw) /\ Known(T, raw) /\ GoalsFor(T, raw) > GoalsAgainst(T, raw)
Loses(T, raw) == Plays(T, raw) /\ Known(T, raw) /\ GoalsFor(T, raw) < GoalsAgainst(T, raw)
Bit(x) == x = 1

Built == cache.merged # NoEntry
Merged == cache.merged[1]
MergedDates == {Merged[i].date : i \in DOMAIN Merged}
DerbyDates == {d \in SourceDates : \E i \in MatchesOn(d) : IsDerby(MatchCells[i])}

(***************************************************************************)
(* C1: a merged table has (max_date - min_date) + 1 rows, from the first   *)
(* to the last date of both sources, each row one day after the row        *)
(* before it.                                                              *)
(***************************************************************************)
C1_CalendarContiguous ==
  Built =>
    /\ Len(Merged) = MaxOf(SourceDates) - MinOf(SourceDates) + 1
    /\ Merged[1].date = MinOf(SourceDates)
    /\ \A i \in 1..(Len(Merged) - 1) : Merged[i + 1].date = Merged[i].date + 1

(* The matches end after the calls, and a day in between is in neither source. *)
C1_Witness ==
  /\ Built
  /\ Len(Merged) >= 3
  /\ \E i \in GoodMatches : \A j \in GoodCalls : CallDay(j) < MatchDay(i)
  /\ \E d \in MergedDates : d \notin SourceDates

(***************************************************************************)
(* C2: every call record with a date is counted on the row of its day and  *)
(* nowhere else, a day without calls has 0, and the calls of the table     *)
(* add up to the number of call records in its date range.                 *)
(***************************************************************************)
C2_CallsConserved ==
  Built =>
    /\ \A i \in DOMAIN Merged : Merged[i].dv_calls = CallsOn(Merged[i].date)
    /\ SumOver(DOMAIN Merged, [i \in DOMAIN Merged |-> Merged[i].dv_calls])
         = Cardinality({i \in GoodCalls : CallDay(i) \in MergedDates})

(* Two calls on one day and a day of the table with no call. *)
C2_Witness ==
  /\ Built
  /\ \E i \in DOMAIN Merged : Merged[i].dv_calls = 2
  /\ \E i \in DOMAIN Merged : Merged[i].dv_calls = 0 /\ CallsOn(Merged[i].date) = 0

(***************************************************************************)
(* C3: on every day of the table, superclasico = 1 implies                 *)
(* river_played = 1 and boca_played = 1.                                   *)
(***************************************************************************)
C3_DerbyImpliesBothPlayed ==
  Built =>
    \A i \in DOMAIN Merged :
      Bit(Merged[i].superclasico) => Bit(Merged[i].river_played) /\ Bit(Merged[i].boca_played)

(* A derby day with a second match, between other teams, on the same day. *)
C3_Witness ==
  /\ Built
  /\ \E i \in DOMAIN Merged :
       /\ Bit(Merged[i].superclasico)
       /\ \E j \in MatchesOn(Merged[i].date) :
            ~Plays(River, MatchCells[j]) /\ ~Plays(Boca, MatchCells[j])

(***************************************************************************)
(* C4: on a day of the table where no match row has River Plate or Boca    *)
(* Juniors as home or away team, every flag is 0.                          *)
(***************************************************************************)
NoFlag(row) ==
  /\ row.river_played = 0 /\ row.boca_played = 0 /\ row.superclasico = 0
  /\ row.river_win = 0 /\ row.river_loss = 0
  /\ row.boca_win = 0 /\ row.boca_loss = 0
  /\ row.any_match = 0

C4_NoTrackedTeamNoFlag ==
  Built =>
    \A i \in DOMAIN Merged :
      (\A j \in MatchesOn(Merged[i].date) :
          ~Plays(River, MatchCells[j]) /\ ~Plays(Boca, MatchCells[j]))
        => NoFlag(Merged[i])

(* A day with only a match between other teams, decided by goals, and a day with no match. *)
C4_Witness ==
  /\ Built
  /\ \E i \in DOMAIN Merged :
       /\ MatchesOn(Merged[i].date) # {}
       /\ \A j \in MatchesOn(Merged[i].date) :
            /\ ~Plays(River, MatchCells[j]) /\ ~Plays(Boca, MatchCells[j])
            /\ MatchCells[j].home_goals # MatchCells[j].away_goals
       /\ NoFlag(Merged[i])
  /\ \E i \in DOMAIN Merged : MatchesOn(Merged[i].date) = {} /\ NoFlag(Merged[i])

(***************************************************************************)
(* C5: rows with an unparseable date are dropped and the run still         *)
(* completes, with the table of the remaining rows, also when every row    *)
(* of a source is dropped.                                                 *)
(***************************************************************************)
SomeDateMalformed ==
  \/ \E i \in DOMAIN CallCells : CallCells[i] = BadCell
  \/ \E i \in DOMAIN MatchCells : MatchCells[i].date = BadCell

C5_MalformedDatesNeverFatal ==
  (lastOp = "view" /\ SomeDateMalformed /\ CallCells # <<>> /\ MatchCells # <<>>) =>
    /\ run.status = "ok"
    /\ Built
    /\ \A i \in DOMAIN Merged : Merged[i].dv_calls = CallsOn(Merged[i].date)

(***************************************************************************)
(* C8: the derby window has a point for offset t iff some derby date d     *)
(* has d + t in the table, its value is the mean of the calls on d + t     *)
(* over those derby dates, and without any derby there is the message      *)
(* and no chart.                                                           *)
(***************************************************************************)
InWindow(t) == {d \in DerbyDates : d + t \in MergedDates}
TeamsShown == lastOp = "view" /\ run.status = "ok" /\ run.page = "River & Boca"
Chart == run.view[1].fig_sc[1]

C8_WitnessNoDerby ==
  TeamsShown /\ DerbyDates = {} /\ run.view[1].info # NoEntry

(***************************************************************************)
(* C9: the result of a tracked team in a match row is undefined iff the    *)
(* team is neither home nor away, else win, loss or draw as its goals-for  *)
(* are more than, less than or equal to its goals-against, whatever the    *)
(* goal cells hold.                                                        *)
(***************************************************************************)
Loaded == cache.matches # NoEntry
ResultOk(T, res, raw) ==
  /\ res = "None" <=> ~Plays(T, raw)
  /\ Plays(T, raw) =>
       /\ res = "win" <=> Wins(T, raw)
       /\ res = "loss" <=> Loses(T, raw)
       /\ res = "draw" <=> GoalsFor(T, raw) = GoalsAgainst(T, raw)

C9_ResultFor ==
  (Loaded /\ GoodMatches = DOMAIN MatchCells) =>
    \A i \in DOMAIN MatchCells :
      /\ ResultOk(River, cache.matches[1][i].river_result, MatchCells[i])
      /\ ResultOk(Boca, cache.matches[1][i].boca_result, MatchCells[i])

(***************************************************************************)
(* C10: on a day with a match row, each played/derby flag is 1 iff some    *)
(* match row of the day has it, and each win/loss flag is 1 iff some       *)
(* match row of the day gives the team that result.                        *)
(***************************************************************************)
C10_DayIsOrOfMatches ==
  Built =>
    \A i \in DOMAIN Merged :
      LET on == MatchesOn(Merged[i].date)
          some(P(_)) == \E j \in on : P(MatchCells[j])
      IN on # {} =>
           /\ Bit(Merged[i].river_played) <=> some(LAMBDA r : Plays(River, r))
           /\ Bit(Merged[i].boca_played) <=> some(LAMBDA r : Plays(Boca, r))
           /\ Bit(Merged[i].superclasico) <=> some(IsDerby)
           /\ Bit(Merged[i].river_win) <=> some(LAMBDA r : Wins(River, r))
           /\ Bit(Merged[i].river_loss) <=> some(LAMBDA r : Loses(River, r))
           /\ Bit(Merged[i].boca_win) <=> some(LAMBDA r : Wins(Boca, r))
           /\ Bit(Merged[i].boca_loss) <=> some(LAMBDA r : Loses(Boca, r))

(* A day on which River wins one match and loses another: both flags are 1. *)
C10_Witness ==
  /\ Built
  /\ \E i \in DOMAIN Merged :
       /\ Merged[i].river_win = 1 /\ Merged[i].river_loss = 1
       /\ Cardinality(MatchesOn(Merged[i].date)) = 2

(***************************************************************************)
(* C6: a run in which a loader executes on a call source without a date    *)
(* column, or on a missing match file, or on a match file without a date,  *)
(* home/away team or home/away goal column, reports an error and halts:    *)
(* no merged table and no view.                                            *)
(***************************************************************************)
HasCol(cols, toks) == \E k \in DOMAIN cols : \A t \in toks : Contains(cols[k], t)
DvUsable == HasCol(source.dv.columns, {"fecha"})
LigaUsable ==
  /\ ~source.liga.missing
  /\ HasCol(source.liga.columns, {"date"}) \/ HasCol(source.liga.columns, {"fecha"})
  /\ HasCol(source.liga.columns, {"home", "team"})
  /\ HasCol(source.liga.columns, {"away", "team"})
  /\ HasCol(source.liga.columns, {"home", "goal"})
  /\ HasCol(source.liga.columns, {"away", "goal"})
LoadFails ==
  \/ "load_dv_data" \in run.ran /\ ~DvUsable
  \/ "load_match_data" \in run.ran /\ ~LigaUsable

C6_FailFast ==
  (lastOp = "view" /\ LoadFails) =>
    /\ run.status = "stopped"
    /\ run.error # ""
    /\ run.view = NoEntry
    /\ ~Built

(* The match file has every column but the home goals: the run stops on it. *)
C6_Witness ==
  /\ lastOp = "view"
  /\ "load_match_data" \in run.ran
  /\ ~source.liga.missing
  /\ HasCol(source.liga.columns, {"away", "goal"})
  /\ ~HasCol(source.liga.columns, {"home", "goal"})
  /\ run.status = "stopped"
  /\ run.error = "Could not find goals columns in Liga Argentina dataset."

(***************************************************************************)
(* C7: while the cache is not invalidated (no clear, no restart), an       *)
(* entry of the cache stays what its first successful load made it, a      *)
(* loader with an entry does not run again, and every page view is drawn   *)
(* from the cached merged table, whatever the sources have become.         *)
(***************************************************************************)
C7_Step ==
  (lastOp' \notin {"clear", "start"}) =>
    /\ cache.dv # NoEntry => cache'.dv = cache.dv
    /\ cache.matches # NoEntry => cache'.matches = cache.matches
    /\ cache.merged # NoEntry => cache'.merged = cache.merged
    /\ lastOp' = "view" =>
         /\ cache.dv # NoEntry => "load_dv_data" \notin run'.ran
         /\ cache.matches # NoEntry => "load_match_data" \notin run'.ran
         /\ cache.merged # NoEntry =>
              /\ run'.ran = {}
              /\ run'.status = "ok"
              /\ run'.view = Some(Render(run'.page, cache.merged[1]))

C7_Memoized == [][C7_Step]_vars

(* A page drawn from the cache after the match file has gone and the calls have changed. *)
C7_Witness ==
  /\ lastOp = "view"
  /\ run.ran = {}
  /\ run.status = "ok"
  /\ Built
  /\ source.liga.missing
  /\ load_dv_data(source.dv).kind = "ok"
  /\ Some(load_dv_data(source.dv).value) # cache.dv

====
